---------------------------- MODULE Spec2Model ----------------------------
(***************************************************************************)
(* Country holiday calendars of prophet/hdays.py.                          *)
(*                                                                         *)
(* One calendar object (a HolidayBase subclass instance) is modelled: its  *)
(* class, its observed flag, its date -> name mapping, and the diagnostics *)
(* that its _populate calls send through warnings.warn.  Each country's    *)
(* _populate(year) is one action.                                          *)
(*                                                                         *)
(* A date is its proleptic Gregorian ordinal (datetime.date.toordinal()).  *)
(* The collaborators hdays.py imports (datetime, dateutil.easter,          *)
(* convertdate.islamic, lunarcalendar) are modelled by the arithmetic they *)
(* perform.                                                                *)
(***************************************************************************)
EXTENDS Integers, Sequences, FiniteSets, TLC

(***************************************************************************)
(* Bounds of the model.                                                    *)
(***************************************************************************)
\* first and last year a _populate call may be given
FirstYear == 2000
LastYear == 2031
\* number of _populate calls made on the calendar
MaxCalls == 2

Years == FirstYear .. LastYear

(***************************************************************************)
(* datetime.date: construction, fields, arithmetic.                        *)
(***************************************************************************)
IsLeap(y) == (y % 4 = 0) /\ ((y % 100 # 0) \/ (y % 400 = 0))

\* days of the year before the first day of month m
DAYS_BEFORE_MONTH == <<0, 31, 59, 90, 120, 151, 181, 212, 243, 273, 304, 334>>

DaysBeforeMonth(y, m) ==
    DAYS_BEFORE_MONTH[m] + (IF m > 2 /\ IsLeap(y) THEN 1 ELSE 0)

DaysBeforeYear(y) ==
    365 * (y - 1) + ((y - 1) \div 4) - ((y - 1) \div 100) + ((y - 1) \div 400)

\* date(y, m, d)
date(y, m, d) == DaysBeforeYear(y) + DaysBeforeMonth(y, m) + d

\* date.year
YearOf(n) ==
    LET y0 == ((400 * (n - 1)) \div 146097) + 1
    IN  IF DaysBeforeYear(y0 + 1) < n THEN y0 + 1
        ELSE IF DaysBeforeYear(y0) >= n THEN y0 - 1
        ELSE y0

\* date.month: an estimate that is exact or one too large, then corrected
MonthOf(n) ==
    LET y == YearOf(n)
        n0 == n - DaysBeforeYear(y) - 1
        month == (n0 + 50) \div 32
    IN  IF DaysBeforeMonth(y, month) > n0 THEN month - 1 ELSE month

\* date.day
DayOf(n) ==
    LET y == YearOf(n)
    IN  n - DaysBeforeYear(y) - DaysBeforeMonth(y, MonthOf(n))

\* date.weekday(): Monday is 0, Sunday is 6
weekday(n) == (n + 6) % 7

\* holidays.WEEKEND
WEEKEND == {5, 6}

(***************************************************************************)
(* dateutil.easter.easter(year, method): EASTER_ORTHODOX is method 2, the  *)
(* default EASTER_WESTERN is method 3.                                     *)
(***************************************************************************)
EASTER_ORTHODOX == 2
EASTER_WESTERN == 3

easter(y, method) ==
    LET g == y % 19
        c == y \div 100
        \* old (Julian) method
        iOld == (19 * g + 15) % 30
        jOld == (y + (y \div 4) + iOld) % 7
        eOld == IF method = 2
                THEN (IF y > 1600
                      THEN 10 + (y \div 100) - 16 - (((y \div 100) - 16) \div 4)
                      ELSE 10)
                ELSE 0
        \* new (Gregorian) method
        h == (c - (c \div 4) - ((8 * c + 13) \div 25) + 19 * g + 15) % 30
        iNew == h - (h \div 28)
                    * (1 - (h \div 28) * (29 \div (h + 1)) * ((21 - g) \div 11))
        jNew == (y + (y \div 4) + iNew + 2 - c + (c \div 4)) % 7
        p == IF method < 3 THEN iOld - jOld + eOld ELSE iNew - jNew
        d == 1 + ((p + 27 + ((p + 6) \div 40)) % 31)
        m == 3 + ((p + 26) \div 30)
    IN  date(y, m, d)

(***************************************************************************)
(* convertdate.islamic: the arithmetic (tabular) Hijri calendar.           *)
(***************************************************************************)
\* ordinal of 1 Muharram 1 AH (Julian day 1948439.5)
IslamicEpoch == 227015

\* islamic.to_jd, as days since the epoch
IslamicDays(hy, hm, hd) ==
    hd + ((59 * (hm - 1) + 1) \div 2) + (hy - 1) * 354
       + ((3 + 11 * hy) \div 30) - 1

\* to_gregorian(hy, hm, hd): the Gregorian (y, m, d)
to_gregorian(hy, hm, hd) ==
    LET n == IslamicEpoch + IslamicDays(hy, hm, hd)
    IN  <<YearOf(n), MonthOf(n), DayOf(n)>>

\* from_gregorian(y, m, d)[0]: the Hijri year of a Gregorian date
from_gregorian_year(y, m, d) ==
    (30 * (date(y, m, d) - IslamicEpoch) + 10646) \div 10631

(***************************************************************************)
(* lunarcalendar: Converter.Lunar2Solar(Lunar(y, m, d)).to_date().  The    *)
(* converter is table driven; LunarYearInfo holds the table rows of the    *)
(* lunar years the model can ask for.  A row encodes the leap month in its *)
(* low 4 bits, the long (30 day) months 1..12 in bits 15..4 and the length *)
(* of the leap month in bit 16.  The conversion of a lunar year the table   *)
(* has no row for raises; the library's table reaches further than the     *)
(* rows kept here, and the conversion raises past the last row here as the *)
(* library's does past its own.                                            *)
(***************************************************************************)
LunarFirstYear == 1999

\* the rows of lunar years 1999..2066
LunarYearInfo ==
    << 37600, 51552, 55636, 54432, 55888, 30034, 22176, 43959,
        9680, 37584, 51893, 43344, 46240, 47780, 44368, 21977,
       19360, 42416, 86390, 21168, 43312, 31060, 27296, 44368,
       23378, 19296, 42726, 42208, 53856, 60005, 54576, 23200,
       30371, 38608, 19195, 19152, 42192, 118966, 53840, 54560,
       56645, 46496, 22224, 21938, 18864, 42359, 42160, 43600,
       111189, 27936, 44448, 84835, 37744, 18936, 18800, 25776,
       92326, 59984, 27424, 108228, 43744, 41696, 53987, 51552,
       54615, 54432, 55888, 23893 >>

\* the lunar new year of LunarFirstYear: 16 February 1999
LunarFirstNewYear == date(1999, 2, 16)

LunarLastYear == LunarFirstYear + Len(LunarYearInfo) - 1

\* the lunar years the conversion is defined for
LunarSupported(y) == y \in LunarFirstYear .. LunarLastYear

LunarInfo(y) == LunarYearInfo[y - LunarFirstYear + 1]

LunarLeapMonth(y) == LunarInfo(y) % 16

RECURSIVE Pow2(_)
Pow2(n) == IF n = 0 THEN 1 ELSE 2 * Pow2(n - 1)

LunarMonthDays(y, m) ==
    IF (LunarInfo(y) \div Pow2(16 - m)) % 2 = 1 THEN 30 ELSE 29

LunarLeapDays(y) ==
    IF LunarLeapMonth(y) = 0 THEN 0
    ELSE IF (LunarInfo(y) \div 65536) % 2 = 1 THEN 30 ELSE 29

\* days from the new year of y to the first day of its month m
RECURSIVE LunarDaysBeforeMonth(_, _)
LunarDaysBeforeMonth(y, m) ==
    IF m = 1 THEN 0
    ELSE LunarDaysBeforeMonth(y, m - 1) + LunarMonthDays(y, m - 1)
         + (IF LunarLeapMonth(y) = m - 1 THEN LunarLeapDays(y) ELSE 0)

LunarYearDays(y) ==
    LunarDaysBeforeMonth(y, 12) + LunarMonthDays(y, 12)
    + (IF LunarLeapMonth(y) = 12 THEN LunarLeapDays(y) ELSE 0)

RECURSIVE LunarNewYear(_)
LunarNewYear(y) ==
    IF y = LunarFirstYear THEN LunarFirstNewYear
    ELSE LunarNewYear(y - 1) + LunarYearDays(y - 1)

Lunar2Solar(y, m, d) == LunarNewYear(y) + LunarDaysBeforeMonth(y, m) + d - 1


(***************************************************************************)
(* The effects of a _populate body, in statement order.  A "set" effect is *)
(* one self[date] = name statement; kind, def and cand record which        *)
(* holiday definition made it (def gives the definition's own numbers,     *)
(* cand the foreign-calendar or anchor year the date was converted from).  *)
(* A "warn" effect is one warnings.warn(msg, Warning) call.  A "raise"     *)
(* effect is an exception raised by a call the body makes: no statement of *)
(* _populate catches it, so the body ends there.                           *)
(***************************************************************************)
Set(d, name, kind, def, cand) ==
    [op |-> "set", date |-> d, name |-> name, kind |-> kind,
     def |-> def, cand |-> cand]

Warn(msg) ==
    [op |-> "warn", date |-> 0, name |-> msg, kind |-> "warn",
     def |-> <<>>, cand |-> 0]

Raise(what) ==
    [op |-> "raise", date |-> 0, name |-> what, kind |-> "raise",
     def |-> <<>>, cand |-> 0]

\* the effects that happen: those up to the first exception
RECURSIVE Executed(_)
Executed(effs) ==
    IF effs = <<>> THEN <<>>
    ELSE IF Head(effs).op = "raise" THEN <<Head(effs)>>
    ELSE <<Head(effs)>> \o Executed(Tail(effs))

\* self[date(year, m, d)] = name
Fixed(year, m, d, name) ==
    <<Set(date(year, m, d), name, "fixed", <<m, d>>, 0)>>

\* range(-1, 2, 1)
range == {-1, 0, 1}

\* for offset in range(-1, 2, 1): body[offset]
ForOffsets(body) == body[-1] \o body[0] \o body[1]

\* LunarLoop that passes over a lunar year the conversion fails for
LunarLoop_SkipsFailure(year, name, lm, ld) ==
    ForOffsets([offset \in range |->
        IF ~LunarSupported(year + offset)
        THEN <<>>
        ELSE LET ds == Lunar2Solar(year + offset, lm, ld)
             IN  IF YearOf(ds) = year
                 THEN <<Set(ds, name, "lunar", <<lm, ld, 1>>, year + offset)>>
                 ELSE <<>>])

\* ds = Converter.Lunar2Solar(Lunar(year + offset, lm, ld)).to_date()
\* if ds.year == year: self[ds] = name
LunarLoop(year, name, lm, ld) ==
    ForOffsets([offset \in range |->
        IF ~LunarSupported(year + offset)
        THEN <<Raise("Lunar2Solar")>>
        ELSE LET ds == Lunar2Solar(year + offset, lm, ld)
             IN  IF YearOf(ds) = year
                 THEN <<Set(ds, name, "lunar", <<lm, ld, 1>>, year + offset)>>
                 ELSE <<>>])

\* EasterLoop with the offset subtracted instead of added
EasterLoop_Subtracts(year, name, days) ==
    ForOffsets([offset \in range |->
        LET ds == easter(year + offset, EASTER_WESTERN) - days
        IN  IF YearOf(ds) = year
            THEN <<Set(ds, name, "easter", <<days>>, year + offset)>>
            ELSE <<>>])

\* EasterLoop calling easter with the Orthodox method
EasterLoop_Orthodox(year, name, days) ==
    ForOffsets([offset \in range |->
        LET ds == easter(year + offset, EASTER_ORTHODOX) + days
        IN  IF YearOf(ds) = year
            THEN <<Set(ds, name, "easter", <<days>>, year + offset)>>
            ELSE <<>>])

\* ds = easter(year + offset) + rd(days=days)
\* if ds.year == year: self[ds] = name
EasterLoop(year, name, days) ==
    ForOffsets([offset \in range |->
        LET ds == easter(year + offset, EASTER_WESTERN) + days
        IN  IF YearOf(ds) = year
            THEN <<Set(ds, name, "easter", <<days>>, year + offset)>>
            ELSE <<>>])

\* OrthodoxEaster with easter's default method, the Western one
OrthodoxEaster_Western(year, name, days) ==
    <<Set(easter(year, EASTER_WESTERN) + days, name, "orthodox",
          <<days>>, year)>>

\* OrthodoxEaster taking the Easter of the year after
OrthodoxEaster_NextYear(year, name, days) ==
    <<Set(easter(year + 1, EASTER_ORTHODOX) + days, name, "orthodox",
          <<days>>, year)>>

\* self[easter(year, EASTER_ORTHODOX) + timedelta(days=days)] = name
OrthodoxEaster(year, name, days) ==
    <<Set(easter(year, EASTER_ORTHODOX) + days, name, "orthodox",
          <<days>>, year)>>

\* HijriDay with the test y == year left out
HijriDay_NoYearTest(year, name, hy, hm, hd, def) ==
    LET g == to_gregorian(hy, hm, hd)
    IN  <<Set(date(g[1], g[2], g[3]), name, "hijri", def, hy)>>

\* y, m, d = to_gregorian(hy, hm, hd); if y == year: self[date(y, m, d)] = name
HijriDay(year, name, hy, hm, hd, def) ==
    LET g == to_gregorian(hy, hm, hd)
    IN  IF g[1] = year
        THEN <<Set(date(g[1], g[2], g[3]), name, "hijri", def, hy)>>
        ELSE <<>>

\* HijriDays taking every second day: hd, hd + 2, ...
RECURSIVE HijriDays_SkipsDay(_, _, _, _, _, _, _)
HijriDays_SkipsDay(year, name, hy, hm, hd, count, def) ==
    IF count = 0 THEN <<>>
    ELSE HijriDay(year, name, hy, hm, hd, def)
         \o HijriDays_SkipsDay(year, name, hy, hm, hd + 2, count - 1, def)

\* the days hd, hd + 1, ... of one candidate year, each under its own if
RECURSIVE HijriDays(_, _, _, _, _, _, _)
HijriDays(year, name, hy, hm, hd, count, def) ==
    IF count = 0 THEN <<>>
    ELSE HijriDay(year, name, hy, hm, hd, def)
         \o HijriDays(year, name, hy, hm, hd + 1, count - 1, def)

\* islam_year = from_gregorian(year + offset, am, ad)[0]
\* then the count days from (islam_year + shift, hm, hd)
HijriLoop(year, name, am, ad, shift, hm, hd, count) ==
    ForOffsets([offset \in range |->
        LET islam_year == from_gregorian_year(year + offset, am, ad)
        IN  HijriDays(year, name, islam_year + shift, hm, hd, count,
                      <<hm, hd, count>>)])

\* a hard-coded table: if year == first: ... elif ...: ... else: pass
TableLookup(year, first, table, name) ==
    IF year \in first .. (first + Len(table) - 1)
    THEN LET md == table[year - first + 1]
         IN  <<Set(date(year, md[1], md[2]), name, "table", md, year)>>
    ELSE <<>>

(***************************************************************************)
(* The hard-coded year tables: (month, day) for the table's first year and *)
(* each year after it.                                                     *)
(***************************************************************************)
NyepiFirstYear == 2009
NyepiTable ==
    << <<3, 26>>, <<3, 16>>, <<3, 5>>, <<3, 23>>, <<3, 12>>, <<3, 31>>,
       <<3, 21>>, <<3, 9>>, <<3, 28>>, <<3, 17>>, <<3, 7>> >>

DiwaliHoliFirstYear == 2010
DiwaliTable ==
    << <<12, 5>>, <<10, 26>>, <<11, 13>>, <<11, 3>>, <<10, 23>>, <<11, 11>>,
       <<10, 30>>, <<10, 19>>, <<11, 7>>, <<10, 27>>, <<11, 14>>, <<11, 4>>,
       <<10, 24>>, <<10, 12>>, <<11, 1>>, <<10, 21>>, <<11, 8>>, <<10, 29>>,
       <<10, 17>>, <<11, 5>>, <<10, 26>> >>
HoliTable ==
    << <<2, 28>>, <<3, 19>>, <<3, 8>>, <<3, 26>>, <<3, 17>>, <<3, 6>>,
       <<3, 24>>, <<3, 13>>, <<3, 2>>, <<3, 21>>, <<3, 9>>, <<3, 28>>,
       <<3, 18>>, <<3, 7>>, <<3, 25>>, <<3, 14>>, <<3, 3>>, <<3, 22>>,
       <<3, 11>>, <<2, 28>>, <<3, 19>> >>

MaghaPujaFirstYear == 2016
MaghaPujaTable == << <<2, 22>>, <<2, 11>>, <<3, 1>>, <<2, 19>> >>

AsalhaPujaFirstYear == 2006
AsalhaPujaTable ==
    << <<7, 11>>, <<6, 30>>, <<7, 18>>, <<7, 7>>, <<7, 25>>, <<7, 15>>,
       <<8, 2>>, <<7, 30>>, <<7, 13>>, <<7, 30>>, <<7, 15>>, <<7, 9>>,
       <<7, 29>>, <<7, 16>>, <<7, 5>>, <<7, 24>>, <<7, 13>>, <<7, 3>>,
       <<7, 21>>, <<7, 10>> >>

VassaFirstYear == 2006
VassaTable ==
    << <<7, 12>>, <<7, 31>>, <<7, 19>>, <<7, 8>>, <<7, 27>>, <<7, 16>>,
       <<8, 3>>, <<7, 23>>, <<7, 13>>, <<8, 1>>, <<7, 20>>, <<7, 9>>,
       <<7, 28>>, <<7, 17>>, <<7, 6>> >>

\* the warning messages
NyepiWarning == "We only support Nyepi holiday from 2009 to 2019"
DiwaliHoliWarning == "We only support Diwali and Holi holidays from 2010 to 2030"
AsalhaPujaWarning == "We only support Asalha Puja holiday from 2006 to 2025"
VassaWarning == "We only support Vassa holiday from 2006 to 2020"

\* Pancasila Day is a holiday since this year; Coronation Day until it
PancasilaSince == 2017
CoronationRemoved == 2017

(***************************************************************************)
(* Indonesia._populate                                                     *)
(***************************************************************************)
Indonesia_EidAlFitr(year) ==
    ForOffsets([offset \in range |->
        LET islam_year == from_gregorian_year(year + offset, 6, 15)
            g1 == to_gregorian(islam_year, 10, 1)
            g2 == to_gregorian(islam_year, 10, 2)
        IN  (IF g1[1] = year
             THEN <<Set(date(g1[1], g2[2], g2[3]), "Eid al-Fitr", "hijri",
                        <<10, 1, 2>>, islam_year)>>
             ELSE <<>>)
            \o
            (IF g2[1] = year
             THEN <<Set(date(g2[1], g2[2], g2[3]), "Eid al-Fitr", "hijri",
                        <<10, 1, 2>>, islam_year)>>
             ELSE <<>>)])

\* Indonesia_NewYearsDay without the test of self.observed
Indonesia_NewYearsDay_Unconditional(year, obs) ==
    Fixed(year, 1, 1, "New Year's Day")

\* if not self.observed and date(year, 1, 1).weekday() in WEEKEND: pass
\* else: self[date(year, 1, 1)] = "New Year's Day"
Indonesia_NewYearsDay(year, obs) ==
    IF ~obs /\ weekday(date(year, 1, 1)) \in WEEKEND
    THEN <<>>
    ELSE Fixed(year, 1, 1, "New Year's Day")

Indonesia_populate(year, obs) ==
    Indonesia_NewYearsDay(year, obs)
    \o LunarLoop(year, "Chinese New Year", 1, 1)
    \o <<Warn(NyepiWarning)>>
    \o TableLookup(year, NyepiFirstYear, NyepiTable, "Day of Silence/ Nyepi")
    \o HijriLoop(year, "Ascension of the Prophet", 3, 17, 0, 7, 27, 1)
    \o Fixed(year, 5, 1, "Labor Day")
    \o EasterLoop(year, "Ascension of Jesus", 39)
    \o LunarLoop(year, "Buddha's Birthday", 4, 15)
    \o (IF year >= PancasilaSince
        THEN Fixed(year, 6, 1, "Pancasila Day")
        ELSE <<>>)
    \o Indonesia_EidAlFitr(year)
    \o Fixed(year, 8, 17, "Independence Day")
    \o HijriLoop(year, "Feast of the Sacrifice", 8, 22, 0, 12, 10, 1)
    \o HijriLoop(year, "Islamic New Year", 9, 11, 1, 1, 1, 1)
    \o HijriLoop(year, "Birth of the Prophet", 11, 20, 1, 3, 12, 1)
    \o Fixed(year, 12, 25, "Christmas")

(***************************************************************************)
(* India._populate                                                         *)
(***************************************************************************)
India_populate(year) ==
    Fixed(year, 1, 26, "Republic Day")
    \o Fixed(year, 8, 15, "Independence Day")
    \o Fixed(year, 10, 2, "Gandhi Jayanti")
    \o <<Warn(DiwaliHoliWarning)>>
    \o TableLookup(year, DiwaliHoliFirstYear, DiwaliTable, "Diwali")
    \o TableLookup(year, DiwaliHoliFirstYear, HoliTable, "Holi")
    \o HijriLoop(year, "Day of Ashura", 10, 1, 0, 1, 10, 1)
    \o HijriLoop(year, "Mawlid", 11, 20, 0, 3, 12, 1)
    \o HijriLoop(year, "Eid al-Fitr", 6, 15, 0, 10, 1, 2)
    \o HijriLoop(year, "Feast of the Sacrifice", 8, 22, 0, 12, 10, 1)
    \o Fixed(year, 1, 1, "New Year's Day")
    \o EasterLoop(year, "Palm Sunday", -7)
    \o EasterLoop(year, "Maundy Thursday", -3)
    \o EasterLoop(year, "Good Friday", -2)
    \o EasterLoop(year, "Easter Sunday", 0)
    \o EasterLoop(year, "Feast of Pentecost", 49)
    \o Fixed(year, 9, 5, "Fest of St. Theresa of Calcutta")
    \o Fixed(year, 9, 8, "Feast of the Blessed Virgin")
    \o Fixed(year, 11, 1, "All Saints Day")
    \o Fixed(year, 11, 2, "All Souls Day")
    \o Fixed(year, 12, 25, "Christmas Day")
    \o Fixed(year, 12, 26, "Boxing Day")
    \o Fixed(year, 12, 30, "Feast of Holy Family")

(***************************************************************************)
(* Kyrgyzstan._populate                                                    *)
(***************************************************************************)
Kyrgyzstan_populate(year) ==
    Fixed(year, 1, 1, "New Year's Day")
    \o Fixed(year, 1, 7, "Orthodox Christmas Day")
    \o Fixed(year, 2, 23, "Fatherland Defender's Day")
    \o Fixed(year, 3, 8, "International Women's Day")
    \o Fixed(year, 3, 21, "Nooruz Mairamy")
    \o Fixed(year, 4, 7, "Day of the People's April Revolution")
    \o Fixed(year, 5, 1, "Spring and Labour Day")
    \o Fixed(year, 5, 1, "Spring and Labour Day")
    \o Fixed(year, 5, 5, "Constitution Day")
    \o Fixed(year, 5, 9, "Victory Day")
    \o Fixed(year, 6, 1, "Russia Day")
    \o Fixed(year, 8, 31, "Independence Day")
    \o Fixed(year, 11, 7, "Day 1 of History and Commemoration of Ancestors")
    \o Fixed(year, 11, 8, "Day 2 of History and Commemoration of Ancestors")
    \o Fixed(year, 12, 31, "New Year's Eve")

(***************************************************************************)
(* Thailand._populate                                                      *)
(***************************************************************************)
\* Thailand_ChakriMemorialDay moving a Saturday by one day only
Thailand_ChakriMemorialDay_OneDay(year) ==
    LET april_6 == weekday(date(year, 4, 6))
    IN  IF april_6 \in WEEKEND
        THEN Fixed(year, 4, 6 + 1, "Chakri Memorial Day")
        ELSE Fixed(year, 4, 6, "Chakri Memorial Day")

Thailand_ChakriMemorialDay(year) ==
    LET april_6 == weekday(date(year, 4, 6))
    IN  IF april_6 = 5 THEN Fixed(year, 4, 6 + 2, "Chakri Memorial Day")
        ELSE IF april_6 = 6 THEN Fixed(year, 4, 6 + 1, "Chakri Memorial Day")
        ELSE Fixed(year, 4, 6, "Chakri Memorial Day")

Thailand_populate(year) ==
    Fixed(year, 1, 1, "New Year's Day")
    \o TableLookup(year, MaghaPujaFirstYear, MaghaPujaTable,
                   "Magha Pujab/Makha Bucha")
    \o Thailand_ChakriMemorialDay(year)
    \o Fixed(year, 4, 14, "Songkran Festival")
    \o LunarLoop(year, "Buddha's Birthday", 4, 15)
    \o (IF year < CoronationRemoved
        THEN Fixed(year, 5, 5, "Coronation Day")
        ELSE <<>>)
    \o Fixed(year, 7, 28, "King Maha Vajiralongkorn's Birthday")
    \o <<Warn(AsalhaPujaWarning)>>
    \o TableLookup(year, AsalhaPujaFirstYear, AsalhaPujaTable, "Asalha Puja")
    \o <<Warn(VassaWarning)>>
    \o TableLookup(year, VassaFirstYear, VassaTable, "Beginning of Vassa")
    \o Fixed(year, 8, 12, "The Queen Sirikit's Birthday")
    \o Fixed(year, 10, 13,
             "Anniversary for the Death of King Bhumibol Adulyadej")
    \o Fixed(year, 10, 23, "King Chulalongkorn Day")
    \o Fixed(year, 12, 5, "King Bhumibol Adulyadej's Birthday Anniversary")
    \o Fixed(year, 12, 10, "Constitution Day")
    \o Fixed(year, 12, 31, "New Year's Eve")

(***************************************************************************)
(* Philippines._populate                                                   *)
(***************************************************************************)
Philippines_EidAlFitr(year) ==
    ForOffsets([offset \in range |->
        LET islam_year == from_gregorian_year(year + offset, 6, 15)
            g == to_gregorian(islam_year, 10, 1)
            ds == date(g[1], g[2], g[3]) - 1
        IN  IF YearOf(ds) = year
            THEN <<Set(ds, "Eid al-Fitr", "hijri", <<10, 1, 1>>, islam_year)>>
            ELSE <<>>])

Philippines_populate(year) ==
    Fixed(year, 1, 1, "New Year's Day")
    \o EasterLoop(year, "Maundy Thursday", -3)
    \o EasterLoop(year, "Good Friday", -2)
    \o Fixed(year, 4, 9, "Day of Valor")
    \o Fixed(year, 5, 1, "Labor Day")
    \o Fixed(year, 6, 12, "Independence Day")
    \o Philippines_EidAlFitr(year)
    \o HijriLoop(year, "Feast of the Sacrifice", 8, 22, 0, 12, 10, 1)
    \o Fixed(year, 8, 27, "National Heroes' Day")
    \o Fixed(year, 11, 30, "Bonifacio Day")
    \o Fixed(year, 12, 25, "Christmas Day")
    \o Fixed(year, 12, 30, "Rizal Day")

(***************************************************************************)
(* Pakistan._populate                                                      *)
(***************************************************************************)
Pakistan_populate(year) ==
    Fixed(year, 2, 5, "Kashmir Solidarity Day")
    \o Fixed(year, 3, 23, "Pakistan Day")
    \o Fixed(year, 5, 1, "Labor Day")
    \o Fixed(year, 8, 14, "Independence Day")
    \o Fixed(year, 11, 9, "Iqbal Day")
    \o Fixed(year, 12, 25, "Christmas Day")
    \o HijriLoop(year, "Feast of the Sacrifice", 8, 22, 0, 12, 10, 3)
    \o HijriLoop(year, "Eid al-Fitr", 6, 15, 0, 10, 1, 3)
    \o HijriLoop(year, "Mawlid", 11, 20, 0, 3, 12, 1)
    \o HijriLoop(year, "Day of Ashura", 10, 1, 0, 1, 10, 2)
    \o HijriLoop(year, "Shab e Mairaj", 4, 13, 0, 7, 27, 1)
    \o Fixed(year, 9, 6, "Defence Day")
    \o Fixed(year, 9, 11, "Death Anniversary of Quaid-e-Azam")

(***************************************************************************)
(* Russia._populate                                                        *)
(***************************************************************************)
Russia_populate(year) ==
    Fixed(year, 1, 1, "New Year's Day")
    \o Fixed(year, 1, 7, "Orthodox Christmas Day")
    \o Fixed(year, 12, 25, "Christmas Day")
    \o Fixed(year, 2, 23, "Defender of the Fatherland Day")
    \o Fixed(year, 3, 8, "International Women's Day")
    \o Fixed(year, 8, 22, "National Flag Day")
    \o Fixed(year, 5, 1, "Spring and Labour Day")
    \o Fixed(year, 5, 9, "Victory Day")
    \o Fixed(year, 6, 12, "Russia Day")
    \o Fixed(year, 11, 4, "Unity Day")

(***************************************************************************)
(* Belarus._populate                                                       *)
(***************************************************************************)
Belarus_populate(year) ==
    Fixed(year, 1, 1, "New Year's Day")
    \o Fixed(year, 1, 7, "Orthodox Christmas Day")
    \o Fixed(year, 3, 8, "International Women's Day")
    \o OrthodoxEaster(year, "Commemoration Day", 9)
    \o Fixed(year, 5, 1, "Spring and Labour Day")
    \o Fixed(year, 5, 9, "Victory Day")
    \o Fixed(year, 7, 3, "Independence Day")
    \o Fixed(year, 11, 7, "October Revolution Day")
    \o Fixed(year, 12, 25, "Christmas Day")

(***************************************************************************)
(* Georgia._populate                                                       *)
(***************************************************************************)
Georgia_populate(year) ==
    Fixed(year, 1, 1, "New Year's Day")
    \o Fixed(year, 1, 2, "Second day of the New Year")
    \o Fixed(year, 1, 7, "Orthodox Christmas")
    \o Fixed(year, 1, 19, "Baptism Day of our Lord Jesus Christ")
    \o Fixed(year, 3, 3, "Mother's Day")
    \o Fixed(year, 3, 8, "International Women's Day")
    \o OrthodoxEaster(year, "Good Friday", -2)
    \o OrthodoxEaster(year, "Great Saturday", -1)
    \o OrthodoxEaster(year, "Easter Sunday", 0)
    \o OrthodoxEaster(year, "Easter Monday", 1)
    \o Fixed(year, 4, 9, "National Unity Day")
    \o Fixed(year, 5, 9, "Victory Day")
    \o Fixed(year, 5, 12, "Saint Andrew the First-Called Day")
    \o Fixed(year, 5, 26, "Independence Day")
    \o Fixed(year, 8, 28, "Saint Mary's Day")
    \o Fixed(year, 10, 14, "Day of Svetitskhoveli Cathedral")
    \o Fixed(year, 12, 23, "Saint George's Day")

(***************************************************************************)
(* The effects of self._populate(year) for a calendar of each class: the   *)
(* method the class defines, evaluated once per year (and, for Indonesia,  *)
(* per value of self.observed, which only that class reads).               *)
(***************************************************************************)
Countries == {"ID", "IN", "KG", "TH", "PH", "PK", "RU", "BY", "GE"}

Indonesia_effects ==
    [obs \in BOOLEAN, year \in Years |-> Indonesia_populate(year, obs)]
India_effects == [year \in Years |-> India_populate(year)]
Kyrgyzstan_effects == [year \in Years |-> Kyrgyzstan_populate(year)]
Thailand_effects == [year \in Years |-> Thailand_populate(year)]
Philippines_effects == [year \in Years |-> Philippines_populate(year)]
Pakistan_effects == [year \in Years |-> Pakistan_populate(year)]
Russia_effects == [year \in Years |-> Russia_populate(year)]
Belarus_effects == [year \in Years |-> Belarus_populate(year)]
Georgia_effects == [year \in Years |-> Georgia_populate(year)]

(***************************************************************************)
(* The calendar object and the module's warning registry.                  *)
(***************************************************************************)
VARIABLES
    country,    \* the calendar's class (self.country)
    observed,   \* self.observed
    holidays,   \* the mapping date -> name the calendar holds
    registry,   \* warnings already shown from this module's warn() lines
    calls,      \* the years _populate was called with, in call order
    log,        \* the diagnostics shown: <<index of the call, message>>
    effects     \* the effects of the most recent _populate call; it ended
                \* by raising when the last of them is a "raise"

vars == <<country, observed, holidays, registry, calls, log, effects>>

EmptyDict == [d \in {} |-> ""]

\* SetItem that keeps the name a date already has (dict.setdefault)
SetItem_KeepFirst(h, d, name) ==
    [x \in (DOMAIN h) \cup {d} |->
        IF x \in DOMAIN h THEN h[x] ELSE name]

\* SetItem that joins the new name to the name a date already has
SetItem_Joins(h, d, name) ==
    [x \in (DOMAIN h) \cup {d} |->
        IF x # d THEN h[x]
        ELSE IF d \in DOMAIN h THEN h[d] \o ", " \o name ELSE name]

\* self[d] = name on the calendar's dict
SetItem(h, d, name) ==
    [x \in (DOMAIN h) \cup {d} |-> IF x = d THEN name ELSE h[x]]

\* the mapping after the self[...] = ... statements of effs, in order
RECURSIVE RunSets(_, _)
RunSets(h, effs) ==
    IF effs = <<>> THEN h
    ELSE LET e == Head(effs)
         IN  RunSets(IF e.op = "set" THEN SetItem(h, e.date, e.name) ELSE h,
                     Tail(effs))

\* warnings.warn(msg, Warning) under the default filter: a warning is shown
\* the first time its warn() line is reached and recorded in the registry
WarnShown(reg, msg) == msg \notin reg

\* the messages shown by the warn() calls of effs, in order
RECURSIVE RunWarns(_, _)
RunWarns(reg, effs) ==
    IF effs = <<>> THEN <<>>
    ELSE LET e == Head(effs)
         IN  IF e.op = "warn"
             THEN (IF WarnShown(reg, e.name) THEN <<e.name>> ELSE <<>>)
                  \o RunWarns(reg \cup {e.name}, Tail(effs))
             ELSE RunWarns(reg, Tail(effs))

Warned(effs) == {effs[i].name : i \in {j \in DOMAIN effs : effs[j].op = "warn"}}

Tagged(msgs, n) == [i \in DOMAIN msgs |-> <<n, msgs[i]>>]

Init ==
    /\ country \in Countries
    /\ observed \in BOOLEAN
    /\ holidays = EmptyDict
    /\ registry = {}
    /\ calls = <<>>
    /\ log = <<>>
    /\ effects = <<>>

\* one call self._populate(year) on the calendar
Populate(year, effs) ==
    LET done == Executed(effs)
    IN
    /\ Len(calls) < MaxCalls
    /\ holidays' = RunSets(holidays, done)
    /\ registry' = registry \cup Warned(done)
    /\ log' = log \o Tagged(RunWarns(registry, done), Len(calls) + 1)
    /\ calls' = Append(calls, year)
    /\ effects' = done
    /\ UNCHANGED <<country, observed>>

PopulateIndonesia ==
    /\ country = "ID"
    /\ \E year \in Years : Populate(year, Indonesia_effects[observed, year])

PopulateIndia ==
    /\ country = "IN"
    /\ \E year \in Years : Populate(year, India_effects[year])

PopulateKyrgyzstan ==
    /\ country = "KG"
    /\ \E year \in Years : Populate(year, Kyrgyzstan_effects[year])

PopulateThailand ==
    /\ country = "TH"
    /\ \E year \in Years : Populate(year, Thailand_effects[year])

PopulatePhilippines ==
    /\ country = "PH"
    /\ \E year \in Years : Populate(year, Philippines_effects[year])

PopulatePakistan ==
    /\ country = "PK"
    /\ \E year \in Years : Populate(year, Pakistan_effects[year])

PopulateRussia ==
    /\ country = "RU"
    /\ \E year \in Years : Populate(year, Russia_effects[year])

PopulateBelarus ==
    /\ country = "BY"
    /\ \E year \in Years : Populate(year, Belarus_effects[year])

PopulateGeorgia ==
    /\ country = "GE"
    /\ \E year \in Years : Populate(year, Georgia_effects[year])

Next ==
    \/ PopulateIndonesia
    \/ PopulateIndia
    \/ PopulateKyrgyzstan
    \/ PopulateThailand
    \/ PopulatePhilippines
    \/ PopulatePakistan
    \/ PopulateRussia
    \/ PopulateBelarus
    \/ PopulateGeorgia

Spec == Init /\ [][Next]_vars

(***************************************************************************)
(* The calendars of the two classes that use the lunar conversion,         *)
(* populated for years around the last year the conversion has a row for.  *)
(***************************************************************************)
LunarEndYears == (LunarLastYear - 2) .. (LunarLastYear + 2)

InitLunarEnd ==
    /\ country \in {"ID", "TH"}
    /\ observed \in BOOLEAN
    /\ holidays = EmptyDict
    /\ registry = {}
    /\ calls = <<>>
    /\ log = <<>>
    /\ effects = <<>>

PopulateIndonesiaLunarEnd ==
    /\ country = "ID"
    /\ \E year \in LunarEndYears :
          Populate(year, Indonesia_populate(year, observed))

PopulateThailandLunarEnd ==
    /\ country = "TH"
    /\ \E year \in LunarEndYears : Populate(year, Thailand_populate(year))

NextLunarEnd ==
    \/ PopulateIndonesiaLunarEnd
    \/ PopulateThailandLunarEnd

SpecLunarEnd == InitLunarEnd /\ [][NextLunarEnd]_vars

(***************************************************************************)
(* An Indonesia calendar populated for the years around 2060, the year     *)
(* whose January 1 is 27 Rajab 1482.                                       *)
(***************************************************************************)
LateFirstYear == 2057
LateLastYear == 2063
LateYears == LateFirstYear .. LateLastYear

InitIndonesiaLate ==
    /\ country = "ID"
    /\ observed \in BOOLEAN
    /\ holidays = EmptyDict
    /\ registry = {}
    /\ calls = <<>>
    /\ log = <<>>
    /\ effects = <<>>

PopulateIndonesiaLate ==
    /\ country = "ID"
    /\ \E year \in LateYears :
          Populate(year, Indonesia_populate(year, observed))

NextIndonesiaLate == PopulateIndonesiaLate

SpecIndonesiaLate == InitIndonesiaLate /\ [][NextIndonesiaLate]_vars

(***************************************************************************)
(* Vocabulary of the properties.                                           *)
(***************************************************************************)
\* the years _populate has been called with
Called == {calls[i] : i \in DOMAIN calls}

\* the year of the most recent call
ThisYear == calls[Len(calls)]

\* the mapping holds name at date d
Has(d, name) == d \in DOMAIN holidays /\ holidays[d] = name

\* the date of a Gregorian (y, m, d) triple
DateOf(g) == date(g[1], g[2], g[3])

\* the Hijri years with a day in Gregorian year Y, and one more on each side
HijriYearsNear(Y) ==
    (from_gregorian_year(Y, 1, 1) - 1) .. (from_gregorian_year(Y, 12, 31) + 1)

\* the Hijri holidays a class defines: name and (month, day, dayCount)
HijriHolidaysOf(effs) ==
    UNION {{[name |-> effs[y][i].name, def |-> effs[y][i].def] :
             i \in {j \in DOMAIN effs[y] : effs[y][j].kind = "hijri"}} :
           y \in Years}

India_HijriHolidays == HijriHolidaysOf(India_effects)
Pakistan_HijriHolidays == HijriHolidaysOf(Pakistan_effects)

HijriHolidays ==
    IF country = "IN" THEN India_HijriHolidays ELSE Pakistan_HijriHolidays

(***************************************************************************)
(* C1.  Completeness of the Hijri search window, for India and Pakistan:   *)
(* after _populate(Y), every Hijri year H whose (H, month, day) of a Hijri *)
(* holiday converts to a Gregorian date in Y has that date in the mapping. *)
(***************************************************************************)
C1_WindowComplete ==
    country \in {"IN", "PK"} =>
        \A Y \in Called : \A hol \in HijriHolidays :
            \A H \in HijriYearsNear(Y) : \A i \in 0 .. (hol.def[3] - 1) :
                LET g == to_gregorian(H, hol.def[1], hol.def[2] + i)
                IN  g[1] = Y => DateOf(g) \in DOMAIN holidays

(***************************************************************************)
(* C2.  Every date a foreign-calendar (Lunar or Hijri) holiday loop writes *)
(* during _populate(Y) lies in Gregorian year Y.                           *)
(***************************************************************************)
C2_ForeignDatesInYear ==
    \A i \in DOMAIN effects :
        effects[i].kind \in {"lunar", "hijri"} =>
            YearOf(effects[i].date) = ThisYear

\* _populate ran with lunar writes, Indonesia's two-day Eid al-Fitr or the
\* Philippines' Eid al-Fitr, and a candidate of the window was discarded
C2_Witness ==
    /\ country \in {"ID", "PH"}
    /\ \E i, j \in DOMAIN effects :
          /\ effects[i].kind = "hijri" /\ effects[i].name = "Eid al-Fitr"
          /\ (country = "ID" => effects[j].kind = "lunar")
    /\ \E k \in {-1, 1} :
          to_gregorian(from_gregorian_year(ThisYear + k, 6, 15), 10, 1)[1]
              # ThisYear

(***************************************************************************)
(* C3.  Eid al-Fitr, Hijri (10, 1) with dayCount 2, in Indonesia and       *)
(* India: whenever 1 and 2 Shawwal of a candidate Hijri year both fall in  *)
(* the populated year, the mapping holds both dates under "Eid al-Fitr",   *)
(* and they are consecutive days.                                          *)
(***************************************************************************)
C3_EidBothDays ==
    country \in {"ID", "IN"} =>
        \A Y \in Called : \A k \in {-1, 0, 1} :
            LET H == from_gregorian_year(Y + k, 6, 15)
                g1 == to_gregorian(H, 10, 1)
                g2 == to_gregorian(H, 10, 2)
            IN  (g1[1] = Y /\ g2[1] = Y) =>
                    /\ Has(DateOf(g1), "Eid al-Fitr")
                    /\ Has(DateOf(g2), "Eid al-Fitr")
                    /\ DateOf(g2) = DateOf(g1) + 1

(***************************************************************************)
(* C4.  Every date a multi-day Hijri holiday loop (dayCount 2 or 3) writes *)
(* is the conversion of one of the dayCount consecutive Hijri days that    *)
(* start at the holiday's (month, day) in the candidate Hijri year, and    *)
(* the dates written for one candidate year are consecutive days.          *)
(***************************************************************************)
MultiDayHijri(e) == e.kind = "hijri" /\ e.def[3] >= 2

RunOf(e) ==
    {effects[j].date :
        j \in {x \in DOMAIN effects :
                  /\ MultiDayHijri(effects[x])
                  /\ effects[x].name = e.name
                  /\ effects[x].cand = e.cand}}

C5_Idempotent ==
    [][(calls # <<>> /\ calls' = Append(calls, ThisYear))
          => holidays' = holidays]_vars

\* the same year was populated twice in a row, in a year where two
\* holidays of the calendar coincide on one date
C5_Witness ==
    /\ Len(calls) >= 2
    /\ calls[Len(calls) - 1] = ThisYear
    /\ \E i, j \in DOMAIN effects :
          /\ i < j
          /\ effects[i].op = "set" /\ effects[j].op = "set"
          /\ effects[i].date = effects[j].date
          /\ effects[i].name # effects[j].name

(***************************************************************************)
(* C6.  Last write wins: after _populate(Y), every date the call assigned  *)
(* holds the name of the last statement that assigned it; so India's       *)
(* 2024-11-01 is "All Saints Day" (not "Diwali"), Thailand's 2014-07-13 is *)
(* "Beginning of Vassa" (not "Asalha Puja") and Georgia's April 9 is       *)
(* "National Unity Day" also when an Orthodox Easter day falls on it.      *)
(***************************************************************************)
C6_LastWriteWins ==
    /\ \A i \in DOMAIN effects :
          (/\ effects[i].op = "set"
           /\ ~ \E j \in DOMAIN effects :
                  /\ j > i
                  /\ effects[j].op = "set"
                  /\ effects[j].date = effects[i].date)
          => Has(effects[i].date, effects[i].name)
    /\ (country = "IN" /\ 2024 \in Called)
          => Has(date(2024, 11, 1), "All Saints Day")
    /\ (country = "TH" /\ 2014 \in Called)
          => Has(date(2014, 7, 13), "Beginning of Vassa")
    /\ country = "GE"
          => \A Y \in Called : Has(date(Y, 4, 9), "National Unity Day")

\* India 2024: Diwali and All Saints Day were both assigned to November 1
C6_Witness ==
    /\ country = "IN"
    /\ calls # <<>>
    /\ ThisYear = 2024
    /\ \E i, j \in DOMAIN effects :
          /\ i < j
          /\ effects[i].name = "Diwali"
          /\ effects[j].name = "All Saints Day"
          /\ effects[i].date = date(2024, 11, 1)
          /\ effects[j].date = date(2024, 11, 1)
    /\ Has(date(2024, 11, 1), "All Saints Day")

(***************************************************************************)
(* C7.  Belarus: after _populate(Y) the date Orthodox Easter(Y) + 9 days   *)
(* is labelled "Commemoration Day".                                        *)
(***************************************************************************)
C7_CommemorationDay ==
    country = "BY" =>
        \A Y \in Called :
            Has(easter(Y, EASTER_ORTHODOX) + 9, "Commemoration Day")

(***************************************************************************)
(* C7, amended.  Belarus: _populate(Y) assigns "Commemoration Day" to      *)
(* Orthodox Easter(Y) + 9 days; the mapping labels that date               *)
(* "Commemoration Day" unless it is May 1 or May 9, which the later        *)
(* statements label "Spring and Labour Day" and "Victory Day".             *)
(***************************************************************************)
C7_CommemorationDayUnlessOverwritten ==
    country = "BY" =>
        /\ \A Y \in Called :
              LET d == easter(Y, EASTER_ORTHODOX) + 9
              IN  IF d = date(Y, 5, 1) THEN Has(d, "Spring and Labour Day")
                  ELSE IF d = date(Y, 5, 9) THEN Has(d, "Victory Day")
                  ELSE Has(d, "Commemoration Day")
        /\ calls # <<>> =>
              \E i \in DOMAIN effects :
                  /\ effects[i].op = "set"
                  /\ effects[i].name = "Commemoration Day"
                  /\ effects[i].date = easter(ThisYear, EASTER_ORTHODOX) + 9

\* Belarus 2024: Orthodox Easter is May 5, Western Easter March 31, and
\* May 14 is Commemoration Day
C7_Witness ==
    /\ country = "BY"
    /\ 2024 \in Called
    /\ easter(2024, EASTER_ORTHODOX) = date(2024, 5, 5)
    /\ easter(2024, EASTER_WESTERN) = date(2024, 3, 31)
    /\ Has(date(2024, 5, 14), "Commemoration Day")

(***************************************************************************)
(* C8.  Easter offset round trip: every date d a Western Easter-relative   *)
(* holiday (offset -7, -3, -2, 0, +39 or +49) writes in _populate(Y) has   *)
(* d.year = Y, and d minus the offset is Western Easter(Y + k) for some k  *)
(* in {-1, 0, +1}.                                                         *)
(***************************************************************************)
C8_EasterRoundTrip ==
    \A i \in DOMAIN effects :
        LET e == effects[i]
        IN  e.kind = "easter" =>
                /\ e.def[1] \in {-7, -3, -2, 0, 39, 49}
                /\ YearOf(e.date) = ThisYear
                /\ \E k \in {-1, 0, 1} :
                      e.date - e.def[1] = easter(ThisYear + k, EASTER_WESTERN)

\* India's _populate wrote Palm Sunday (-7) and the Feast of Pentecost (+49)
C8_Witness ==
    /\ country = "IN"
    /\ \E i, j \in DOMAIN effects :
          /\ effects[i].kind = "easter" /\ effects[i].def = <<-7>>
          /\ effects[j].kind = "easter" /\ effects[j].def = <<49>>
          /\ effects[j].date - effects[i].date = 56

(***************************************************************************)
(* The hard-coded year tables: the class, the holiday's name, the years    *)
(* the table covers and the warning messages the code has for it.          *)
(***************************************************************************)
HardcodedTable(c, name, first, table, msgs) ==
    [country |-> c, name |-> name, first |-> first,
     last |-> first + Len(table) - 1, msgs |-> msgs]

HardcodedTables ==
    { HardcodedTable("ID", "Day of Silence/ Nyepi", NyepiFirstYear,
                     NyepiTable, {NyepiWarning}),
      HardcodedTable("IN", "Diwali", DiwaliHoliFirstYear, DiwaliTable,
                     {DiwaliHoliWarning}),
      HardcodedTable("IN", "Holi", DiwaliHoliFirstYear, HoliTable,
                     {DiwaliHoliWarning}),
      HardcodedTable("TH", "Magha Pujab/Makha Bucha", MaghaPujaFirstYear,
                     MaghaPujaTable, {}),
      HardcodedTable("TH", "Asalha Puja", AsalhaPujaFirstYear,
                     AsalhaPujaTable, {AsalhaPujaWarning}),
      HardcodedTable("TH", "Beginning of Vassa", VassaFirstYear, VassaTable,
                     {VassaWarning}) }

\* the diagnostics of table T shown during call number n
ShownFor(T, n) == {i \in DOMAIN log : log[i][1] = n /\ log[i][2] \in T.msgs}

(***************************************************************************)
(* C9.  A _populate call for the year one past a hard-coded table's last   *)
(* year records no date for the table's holiday and emits exactly one      *)
(* diagnostic for that table.                                              *)
(***************************************************************************)
C9_OnePastTable ==
    \A T \in HardcodedTables :
        (country = T.country /\ calls # <<>> /\ ThisYear = T.last + 1) =>
            /\ ~ \E d \in DOMAIN holidays :
                    YearOf(d) = ThisYear /\ holidays[d] = T.name
            /\ Cardinality(ShownFor(T, Len(calls))) = 1

(***************************************************************************)
(* C10.  Over a sequence of _populate calls, the diagnostic of a           *)
(* hard-coded table that has a warning is emitted by the first call whose  *)
(* year is outside the table's range, and by no other call.                *)
(***************************************************************************)
C10_DiagnosticOnFirstUnsupportedYear ==
    \A T \in HardcodedTables :
        (country = T.country /\ T.msgs # {}) =>
            \A n \in DOMAIN calls :
                (ShownFor(T, n) # {})
                <=> (/\ calls[n] \notin T.first .. T.last
                     /\ \A j \in 1 .. (n - 1) : calls[j] \in T.first .. T.last)

(***************************************************************************)
(* The effects of _populate(year) on a calendar of class c, and the        *)
(* mapping a fresh calendar of that class holds after _populate(year).     *)
(***************************************************************************)
EffectsOf(c, obs, year) ==
    CASE c = "ID" -> Indonesia_effects[obs, year]
      [] c = "IN" -> India_effects[year]
      [] c = "KG" -> Kyrgyzstan_effects[year]
      [] c = "TH" -> Thailand_effects[year]
      [] c = "PH" -> Philippines_effects[year]
      [] c = "PK" -> Pakistan_effects[year]
      [] c = "RU" -> Russia_effects[year]
      [] c = "BY" -> Belarus_effects[year]
      [] c = "GE" -> Georgia_effects[year]

PopulatedAlone ==
    [c \in Countries, obs \in BOOLEAN, year \in Years |->
        RunSets(EmptyDict, EffectsOf(c, obs, year))]

\* the entries of mapping h whose date lies in year Y
EntriesIn(h, Y) == {<<d, h[d]>> : d \in {x \in DOMAIN h : YearOf(x) = Y}}

(***************************************************************************)
(* C11.  Per-year immutability: whatever other years are populated on the  *)
(* calendar, before or after, the entries of a populated year Y1 are those *)
(* _populate(Y1) gave (no key of Y1 added, removed or renamed), and        *)
(* populating Y1 then Y2 gives the mapping that populating Y2 then Y1      *)
(* gives.                                                                  *)
(***************************************************************************)
C11_PerYearImmutable ==
    /\ \A Y1 \in Called :
          EntriesIn(holidays, Y1)
              = EntriesIn(PopulatedAlone[country, observed, Y1], Y1)
    /\ (Len(calls) = 2 /\ calls[1] # calls[2]) =>
          holidays = RunSets(PopulatedAlone[country, observed, calls[2]],
                             EffectsOf(country, observed, calls[1]))

\* a calendar populated for two different years holds entries of both
C11_Witness ==
    /\ Len(calls) = 2
    /\ calls[1] # calls[2]
    /\ EntriesIn(holidays, calls[1]) # {}
    /\ EntriesIn(holidays, calls[2]) # {}

(***************************************************************************)
(* C12.  When the lunar conversion fails for one of the window years Y-1,  *)
(* Y, Y+1 of a lunar holiday, _populate(Y) ends by raising to its caller:  *)
(* it never completes normally with the holiday left out or put on some    *)
(* default date.                                                           *)
(***************************************************************************)
Raised == effects # <<>> /\ effects[Len(effects)].op = "raise"

C12_ConversionFailurePropagates ==
    (/\ calls # <<>>
     /\ country \in {"ID", "TH"}
     /\ \E k \in range : ~LunarSupported(ThisYear + k)) => Raised

\* Indonesia's _populate of the last supported lunar year wrote that year's
\* Chinese New Year and then raised on the conversion of the year after
C12_Witness ==
    /\ country = "ID"
    /\ calls # <<>>
    /\ ThisYear = LunarLastYear
    /\ Has(Lunar2Solar(LunarLastYear, 1, 1), "Chinese New Year")
    /\ Raised
    /\ ~ \E d \in DOMAIN holidays : holidays[d] = "Christmas"

(***************************************************************************)
(* The Hijri holidays of every class, and the "set" effects of the most    *)
(* recent _populate that one of them made.                                 *)
(***************************************************************************)
ClassHijriHolidays ==
    [c \in Countries |->
        HijriHolidaysOf([y \in Years |-> EffectsOf(c, TRUE, y)])]

WritesOf(hol) ==
    {i \in DOMAIN effects :
        /\ effects[i].kind = "hijri"
        /\ effects[i].name = hol.name
        /\ effects[i].def = hol.def}

DatesOf(hol) == {effects[i].date : i \in WritesOf(hol)}

CandidatesOf(hol) == {effects[i].cand : i \in WritesOf(hol)}

(***************************************************************************)
(* C13.  For every single-day Hijri holiday and every year Y, _populate(Y) *)
(* records zero, one or two distinct dates for it, never three: one date   *)
(* per Hijri year candidate that lands in Y, each a key of the mapping.    *)
(***************************************************************************)
C13_AtMostTwoDates ==
    calls # <<>> =>
        \A hol \in ClassHijriHolidays[country] :
            hol.def[3] = 1 =>
                /\ Cardinality(DatesOf(hol)) \in {0, 1, 2}
                /\ Cardinality(DatesOf(hol)) = Cardinality(CandidatesOf(hol))
                /\ DatesOf(hol) \subseteq DOMAIN holidays

\* a year with two Mawlid dates (two Hijri years have 12 Rabi I in it)
C13_Witness ==
    /\ country = "IN"
    /\ \E hol \in ClassHijriHolidays["IN"] :
          /\ hol.name = "Mawlid"
          /\ hol.def[3] = 1
          /\ Cardinality(DatesOf(hol)) = 2
          /\ \A d \in DatesOf(hol) : Has(d, "Mawlid") /\ YearOf(d) = ThisYear

(***************************************************************************)
(* C14.  Indonesia's "Birth of the Prophet" loop and India's and           *)
(* Pakistan's "Mawlid" loop define the same holiday: for every year Y they *)
(* record the same set of Gregorian dates.                                 *)
(***************************************************************************)
\* the dates a sequence of effects writes for the Hijri holiday called name
HijriDatesNamed(effs, name) ==
    {effs[i].date :
        i \in {j \in DOMAIN effs :
                  effs[j].kind = "hijri" /\ effs[j].name = name}}

C14_SameMawlidDates ==
    (calls # <<>> /\ country \in {"ID", "IN", "PK"}) =>
        LET birth == HijriDatesNamed(Indonesia_effects[TRUE, ThisYear],
                                     "Birth of the Prophet")
            india == HijriDatesNamed(India_effects[ThisYear], "Mawlid")
            pakistan == HijriDatesNamed(Pakistan_effects[ThisYear], "Mawlid")
        IN  /\ HijriDatesNamed(effects, IF country = "ID"
                                        THEN "Birth of the Prophet"
                                        ELSE "Mawlid")
                   \in {birth, india}
            /\ birth = india
            /\ india = pakistan

(***************************************************************************)
(* C15.  For every Western Easter-relative holiday of a class (offsets     *)
(* between -7 and +49 days) and every year Y, the window of _populate(Y)   *)
(* records exactly one date, Western Easter(Y) + offset, from the          *)
(* candidate k = 0: the candidates k = -1 and k = +1 never land in Y.      *)
(***************************************************************************)
\* the Western Easter-relative holidays each class defines: name, <<offset>>
ClassEasterHolidays ==
    [c \in Countries |->
        UNION {{[name |-> EffectsOf(c, TRUE, y)[i].name,
                 def |-> EffectsOf(c, TRUE, y)[i].def] :
                i \in {j \in DOMAIN EffectsOf(c, TRUE, y) :
                          EffectsOf(c, TRUE, y)[j].kind = "easter"}} :
               y \in Years}]

EasterWritesOf(hol) ==
    {i \in DOMAIN effects :
        /\ effects[i].kind = "easter"
        /\ effects[i].name = hol.name
        /\ effects[i].def = hol.def}

C15_EasterExactlyOneDate ==
    calls # <<>> =>
        \A hol \in ClassEasterHolidays[country] :
            /\ hol.def[1] \in -7 .. 49
            /\ Cardinality(EasterWritesOf(hol)) = 1
            /\ \A i \in EasterWritesOf(hol) :
                  /\ effects[i].cand = ThisYear
                  /\ effects[i].date
                         = easter(ThisYear, EASTER_WESTERN) + hol.def[1]
                  /\ effects[i].date \in DOMAIN holidays

\* India's _populate recorded Palm Sunday a week before Western Easter and
\* the Feast of Pentecost seven weeks after it
C15_Witness ==
    /\ country = "IN"
    /\ calls # <<>>
    /\ Cardinality(ClassEasterHolidays["IN"]) = 5
    /\ Has(easter(ThisYear, EASTER_WESTERN) - 7, "Palm Sunday")
    /\ Has(easter(ThisYear, EASTER_WESTERN) + 49, "Feast of Pentecost")

(***************************************************************************)
(* C16.  The Orthodox Easter-relative holidays of Belarus (+9 days) and    *)
(* Georgia (-2, -1, 0, +1 days) are written without a window or a year     *)
(* test, yet every date they write in _populate(Y) lies in year Y, so      *)
(* every key of a Belarus or Georgia mapping lies in a populated year.     *)
(***************************************************************************)
C16_OrthodoxDatesInYear ==
    (calls # <<>> /\ country \in {"BY", "GE"}) =>
        /\ \A i \in DOMAIN effects :
              effects[i].kind = "orthodox" =>
                  /\ effects[i].def[1]
                         \in (IF country = "BY" THEN {9} ELSE {-2, -1, 0, 1})
                  /\ effects[i].date
                         = easter(ThisYear, EASTER_ORTHODOX) + effects[i].def[1]
                  /\ YearOf(effects[i].date) = ThisYear
        /\ \A d \in DOMAIN holidays : YearOf(d) \in Called

\* a Georgia calendar populated for two years holds the four Orthodox
\* Easter days of the second
C16_Witness ==
    /\ country = "GE"
    /\ Len(calls) = 2
    /\ calls[1] # calls[2]
    /\ Has(easter(ThisYear, EASTER_ORTHODOX) - 2, "Good Friday")
    /\ Has(easter(ThisYear, EASTER_ORTHODOX) - 1, "Great Saturday")
    /\ Has(easter(ThisYear, EASTER_ORTHODOX), "Easter Sunday")
    /\ Has(easter(ThisYear, EASTER_ORTHODOX) + 1, "Easter Monday")

(***************************************************************************)
(* C17.  For every year Y, Thailand's _populate(Y) records "Chakri         *)
(* Memorial Day" on exactly one of April 6, 7, 8 of Y, never a Saturday or *)
(* a Sunday: April 8 when April 6 is a Saturday, April 7 when April 6 is a *)
(* Sunday, April 6 otherwise.                                              *)
(***************************************************************************)
SATURDAY == 5
SUNDAY == 6

\* the dates of year Y the mapping labels "Chakri Memorial Day"
ChakriDays(Y) ==
    {d \in DOMAIN holidays :
        YearOf(d) = Y /\ holidays[d] = "Chakri Memorial Day"}

C17_ChakriMemorialDay ==
    country = "TH" =>
        \A Y \in Called :
            LET april_6 == date(Y, 4, 6)
            IN  /\ Cardinality(ChakriDays(Y)) = 1
                /\ \A d \in ChakriDays(Y) :
                      /\ d \in {april_6, april_6 + 1, april_6 + 2}
                      /\ weekday(d) \notin {SATURDAY, SUNDAY}
                      /\ d = (IF weekday(april_6) = SATURDAY THEN april_6 + 2
                              ELSE IF weekday(april_6) = SUNDAY
                                   THEN april_6 + 1
                              ELSE april_6)

\* 6 April 2013 was a Saturday and 6 April 2014 a Sunday: a calendar
\* populated for both has the day on 8 April 2013 and on 7 April 2014
C17_Witness ==
    /\ country = "TH"
    /\ Called = {2013, 2014}
    /\ Has(date(2013, 4, 8), "Chakri Memorial Day")
    /\ Has(date(2014, 4, 7), "Chakri Memorial Day")

(***************************************************************************)
(* C18.  After Indonesia's _populate(Y) the mapping has an entry named     *)
(* "New Year's Day" on January 1 of Y if and only if self.observed is true *)
(* or January 1 of Y is not a weekend day; when observed is false and      *)
(* January 1 is a weekend day, no entry of Y is named "New Year's Day".    *)
(***************************************************************************)
\* no entry of year Y is named "New Year's Day"
NoNewYearsDay(Y) ==
    ~ \E d \in DOMAIN holidays :
          YearOf(d) = Y /\ holidays[d] = "New Year's Day"

C18_NewYearsDay ==
    (country = "ID" /\ calls # <<>>) =>
        LET jan_1 == date(ThisYear, 1, 1)
        IN  /\ Has(jan_1, "New Year's Day")
                <=> (observed \/ weekday(jan_1) \notin WEEKEND)
            /\ (~observed /\ weekday(jan_1) \in WEEKEND)
                   => NoNewYearsDay(ThisYear)

(***************************************************************************)
(* C18, amended.  As C18, unless a later statement of the same             *)
(* _populate(Y) assigns January 1 of Y, whose name then replaces "New      *)
(* Year's Day".                                                            *)
(***************************************************************************)
\* a statement of the most recent _populate gave date d another name
AssignedOtherName(d, name) ==
    \E i \in DOMAIN effects :
        /\ effects[i].op = "set"
        /\ effects[i].date = d
        /\ effects[i].name # name

C18_NewYearsDayUnlessOverwritten ==
    (country = "ID" /\ calls # <<>>) =>
        LET jan_1 == date(ThisYear, 1, 1)
        IN  /\ Has(jan_1, "New Year's Day")
                <=> (/\ observed \/ weekday(jan_1) \notin WEEKEND
                     /\ ~AssignedOtherName(jan_1, "New Year's Day"))
            /\ (~observed /\ weekday(jan_1) \in WEEKEND)
                   => NoNewYearsDay(ThisYear)

\* 1 January 2061 is a Saturday: with observed false the year has no New
\* Year's Day, and 1 January 2060 is "Ascension of the Prophet"
C18_Witness ==
    /\ country = "ID"
    /\ ~observed
    /\ calls = <<2060, 2061>>
    /\ weekday(date(2061, 1, 1)) \in WEEKEND
    /\ NoNewYearsDay(2061)
    /\ Has(date(2060, 1, 1), "Ascension of the Prophet")
    /\ Has(date(2061, 12, 25), "Christmas")

=============================================================================
